---------------------------- MODULE Spec2Model ----------------------------
(***************************************************************************)
(* Model of the research agent: the provider selection and the            *)
(* multi-provider search tool (agent/tools/intelligent_search.py) and the *)
(* conversation graph (agent/graph.py) over the state of agent/state.py.  *)
(*                                                                         *)
(* The specifications of the module:                                       *)
(*   SpecSelect      one call of select_providers on inputs drawn by Init  *)
(*   SpecSearch      one run of the intelligent_search tool                *)
(*   SpecScenario    one run of the tool on two requests                   *)
(*   SpecSearchLive  one run of the tool on one request, with fairness     *)
(*   Spec            the graph call_model_node / tool_node /               *)
(*                   process_feedback_node                                 *)
(*   SpecRecord      the runs of the graph and the runs of the tool        *)
(* A dict is a function whose domain is its key set, a list is a sequence. *)
(* Python's None is the record None where an object is expected, NoneList  *)
(* where a list is expected and NoneStr where a string is expected.        *)
(***************************************************************************)
EXTENDS Integers, Sequences, FiniteSets, TLC

VARIABLES
    \* ---- select_providers (one call)
    search_type,        \* argument search_type
    user_providers,     \* argument user_providers
    selected,           \* the returned list, None before the call returns
    \* ---- intelligent_search (one run)
    pc,                 \* position of the coroutine
    searches,           \* argument searches: list of [query, type]
    enabled_providers,  \* argument enabled_providers
    prior_sources,      \* state["sources"] as it was when the tool was called
    task_metadata,      \* local task_metadata (search_tasks runs in parallel to it)
    provider_usage,     \* local provider_usage
    running,            \* indices of launched tasks that have not finished yet
    outcome,            \* task index -> what the finished task produced
    finish_order,       \* the indices of the finished tasks, in the order they finished
    all_results,        \* local all_results, [] before gather returns
    i,                  \* loop index of the result loop
    combined_sources,   \* local combined_sources
    provider_stats,     \* local provider_stats
    tool_msg,           \* the returned summary, None before the return
    \* ---- the record, as the running tool or node sees it
    logs,               \* state["logs"]
    sources,            \* state["sources"]
    \* ---- graph
    node,               \* the node the graph is at
    messages,           \* state["messages"]
    proposal,           \* state["proposal"]
    outline,            \* state["outline"]
    reviewed_proposal,  \* local reviewed_proposal of process_feedback_node
    executed,           \* tools invoked by the latest tool_node run
    emitted,            \* snapshots emitted by the latest tool_node run
    emit_failed         \* whether the latest tool_node run ended on an emit that raised

select_vars == <<search_type, user_providers, selected>>
search_vars == <<pc, searches, enabled_providers, prior_sources, task_metadata, provider_usage,
                 running, outcome, finish_order, all_results, i,
                 combined_sources, provider_stats, tool_msg>>
record_vars == <<logs, sources>>
graph_vars  == <<node, messages, proposal, outline, reviewed_proposal,
                 executed, emitted, emit_failed>>
vars == <<select_vars, search_vars, record_vars, graph_vars>>

None == [none |-> TRUE]
NoneList == <<"None">>
NoneStr == "None"

Range(s) == {s[k] : k \in DOMAIN s}

SeqsUpTo(S, n) == UNION {[1..k -> S] : k \in 0..n}

(***************************************************************************)
(* select_providers                                                        *)
(***************************************************************************)
KnownProviders == <<"tavily", "jina">>

\* Python truthiness of an Optional[List]: None and [] are falsy.
Truthy(l) == l # NoneList /\ l # <<>>

IsKnown(p) == p \in Range(KnownProviders)

\* Mutant of select_providers: the user's list is returned as given, without
\* the filter on the recognized names.
select_providers_KeepsUnknown(t, up) ==
    IF Truthy(up)
    THEN IF "all" \in Range(up)
         THEN <<"tavily", "jina">>
         ELSE up
    ELSE CASE t = "general"   -> <<"tavily", "jina">>
           [] t = "news"      -> <<"tavily">>
           [] t = "academic"  -> <<"jina">>
           [] t = "technical" -> <<"jina">>
           [] OTHER           -> <<"tavily", "jina">>

\* Mutant of select_providers: the branch of an unrecognized type selects nothing.
select_providers_EmptyDefault(t, up) ==
    IF Truthy(up)
    THEN IF "all" \in Range(up)
         THEN <<"tavily", "jina">>
         ELSE SelectSeq(up, IsKnown)
    ELSE CASE t = "general"   -> <<"tavily", "jina">>
           [] t = "news"      -> <<"tavily">>
           [] t = "academic"  -> <<"jina">>
           [] t = "technical" -> <<"jina">>
           [] OTHER           -> <<>>

select_providers(t, up) ==
    IF Truthy(up)
    THEN IF "all" \in Range(up)
         THEN <<"tavily", "jina">>
         ELSE SelectSeq(up, IsKnown)
    ELSE CASE t = "general"   -> <<"tavily", "jina">>
           [] t = "news"      -> <<"tavily">>
           [] t = "academic"  -> <<"jina">>
           [] t = "technical" -> <<"jina">>
           [] OTHER           -> <<"tavily", "jina">>

\* ---- inputs of SpecSelect
MaxProviders == 2
DeclaredTypes == {"general", "news", "academic", "technical"}
TypeInputs == DeclaredTypes \cup {"images"}
ProviderNames == {"tavily", "jina", "all", "bing"}
UserProviderInputs == {NoneList} \cup SeqsUpTo(ProviderNames, MaxProviders)

InitSelect ==
    /\ search_type \in TypeInputs
    /\ user_providers \in UserProviderInputs
    /\ selected = NoneList
    \* the variables of the search tool and of the graph are not used
    /\ pc = "idle" /\ searches = <<>> /\ enabled_providers = NoneList
    /\ prior_sources = <<>>
    /\ task_metadata = <<>> /\ provider_usage = <<>> /\ running = {}
    /\ outcome = <<>> /\ finish_order = <<>> /\ all_results = <<>> /\ i = 0
    /\ combined_sources = <<>> /\ provider_stats = <<>> /\ tool_msg = None
    /\ logs = <<>> /\ sources = <<>>
    /\ node = "idle" /\ messages = <<>> /\ proposal = None /\ outline = <<>>
    /\ reviewed_proposal = None /\ executed = <<>> /\ emitted = <<>>
    /\ emit_failed = FALSE

SelectProviders ==
    /\ selected = NoneList
    /\ selected' = select_providers(search_type, user_providers)
    /\ UNCHANGED <<search_type, user_providers>>

(***************************************************************************)
(* intelligent_search                                                      *)
(*                                                                         *)
(* A query text is represented by the position of its request in the       *)
(* batch. Python indices are 0-based: Python's task_metadata[k] is         *)
(* task_metadata[k + 1] here, state["logs"][k] is logs[k + 1].             *)
(***************************************************************************)
EmptyDict == <<>>

\* ---- inputs of SpecSearch
MaxSearches == 1
MaxEnabled == 1
MaxItems == 1
MaxTasks == 2
Urls == {"", "u1", "u2"}

\* SearchRequest.type and enabled_providers are validated against the
\* Literal types of the args_schema before the tool body runs.
SearchRequests(n) ==
    {[k \in 1..n |-> [query |-> k, type |-> ts[k]]] : ts \in [1..n -> DeclaredTypes]}
SearchInputs == UNION {SearchRequests(n) : n \in 0..MaxSearches}
EnabledInputs == {NoneList} \cup SeqsUpTo({"tavily", "jina", "all"}, MaxEnabled)

\* A record of an earlier run, to tell replacement from merge: the tool is
\* called on a record that holds one source already (a first run, on an empty
\* sources map, differs only in that nothing is there to replace).
OldSource == [url |-> "u1", content |-> <<"earlier run">>,
              source_provider |-> "tavily", search_type |-> "general"]
PriorSources == {"u1" :> OldSource}

\* What asyncio.gather(..., return_exceptions=True) yields for one task: the
\* list the adapter returned, or the exception that escaped it.
RaisedException == [kind |-> "Exception", text |-> "boom"]
ReturnedList(items) == [kind |-> "list", items |-> items]
isinstance_Exception(r) == r.kind = "Exception"

\* The items task k can return: only the URLs vary, the rest of an item is
\* named after the task and the position that produced it. The url "" also
\* stands for an item without a url key (result.get('url', '')).
ItemLists(k) ==
    {ReturnedList([j \in 1..Len(us) |-> [url |-> us[j], content |-> <<k, j>>]]) :
        us \in SeqsUpTo(Urls, MaxItems)}

\* search_tavily and search_jina return the provider's items, or [] when they
\* catch a failure; search_jina of type academic calls search_arxiv, which
\* returns [] always. An exception leaves an adapter only from its handler.
Outcomes(k, meta) ==
    IF meta.provider = "jina" /\ meta.type = "academic"
    THEN {RaisedException, ReturnedList(<<>>)}
    ELSE {RaisedException} \cup ItemLists(k)

RECURSIVE Flatten(_)
Flatten(ss) == IF ss = <<>> THEN <<>> ELSE Head(ss) \o Flatten(Tail(ss))

\* The double loop of lines 206-226 for one request.
TasksOfRequest(req, enabled) ==
    LET providers == select_providers(req.type, enabled)
    IN  [k \in 1..Len(providers) |->
            [provider |-> providers[k], query |-> req.query, type |-> req.type]]

\* Mutant of BuildTaskMetadata: the tasks of a later request are put in front
\* of the tasks built so far.
BuildTaskMetadata_LaterRequestFirst(reqs, enabled) ==
    Flatten([k \in 1..Len(reqs) |-> TasksOfRequest(reqs[Len(reqs) + 1 - k], enabled)])

BuildTaskMetadata(reqs, enabled) ==
    Flatten([k \in 1..Len(reqs) |-> TasksOfRequest(reqs[k], enabled)])

CountProvider(tasks, p) == Cardinality({k \in DOMAIN tasks : tasks[k].provider = p})

\* provider_usage after the loop: one increment per (request, provider).
BuildProviderUsage(tasks) == [p \in Range(KnownProviders) |-> CountProvider(tasks, p)]

\* ", ".join(f"{p}({count})" ... if count > 0), kept as the list of pairs.
ProviderList(usage) ==
    LET Positive(p) == usage[p] > 0
    IN  [k \in 1..Len(SelectSeq(KnownProviders, Positive)) |->
            <<SelectSeq(KnownProviders, Positive)[k],
              usage[SelectSeq(KnownProviders, Positive)[k]]>>]

InitSearch ==
    /\ pc = "start"
    /\ searches \in SearchInputs
    /\ enabled_providers \in EnabledInputs
    /\ Len(BuildTaskMetadata(searches, enabled_providers)) <= MaxTasks
    /\ task_metadata = <<>>
    /\ provider_usage = [p \in Range(KnownProviders) |-> 0]
    /\ running = {}
    /\ outcome = EmptyDict
    /\ finish_order = <<>>
    /\ all_results = <<>>
    /\ i = 0
    /\ combined_sources = EmptyDict
    /\ provider_stats = [p \in Range(KnownProviders) |-> 0]
    /\ logs = <<>>
    /\ sources \in PriorSources
    /\ prior_sources = sources
    /\ tool_msg = None
    \* the variables of select_providers and of the graph are not used
    /\ search_type = "general" /\ user_providers = NoneList /\ selected = NoneList
    /\ node = "idle" /\ messages = <<>> /\ proposal = None /\ outline = <<>>
    /\ reviewed_proposal = None /\ executed = <<>> /\ emitted = <<>>
    /\ emit_failed = FALSE

\* Lines 196-238: build the tasks, append the summary entry, emit.
BuildTasks ==
    /\ pc = "start"
    /\ task_metadata' = BuildTaskMetadata(searches, enabled_providers)
    /\ provider_usage' = BuildProviderUsage(task_metadata')
    /\ logs' = Append(logs,
                 [message |-> <<"Intelligent Search", Len(task_metadata'),
                                ProviderList(provider_usage')>>,
                  done |-> FALSE,
                  providers |-> ProviderList(provider_usage')])
    /\ pc' = "log_tasks"
    /\ UNCHANGED <<searches, enabled_providers, prior_sources, running, outcome, finish_order, all_results, i,
                   combined_sources, provider_stats, sources, tool_msg>>

\* Lines 241-252: one entry per task, emit, and gather launches every task.
LogTasks ==
    /\ pc = "log_tasks"
    /\ logs' = logs \o [k \in 1..Len(task_metadata) |->
                 [message |-> <<task_metadata[k].provider, task_metadata[k].query,
                                task_metadata[k].type>>,
                  done |-> FALSE,
                  provider |-> task_metadata[k].provider,
                  index |-> k - 1]]
    /\ running' = {k - 1 : k \in 1..Len(task_metadata)}
    /\ pc' = "gather"
    /\ UNCHANGED <<searches, enabled_providers, prior_sources, task_metadata, provider_usage,
                   outcome, finish_order, all_results, i, combined_sources, provider_stats,
                   sources, tool_msg>>

\* Mutant of TaskComplete: the task is handed the state and marks its own log
\* entry when it ends.
TaskComplete_MarksOwnEntry(k) ==
    /\ pc = "gather"
    /\ k \in running
    /\ \E r \in Outcomes(k, task_metadata[k + 1]) : outcome' = outcome @@ (k :> r)
    /\ finish_order' = Append(finish_order, k)
    /\ running' = running \ {k}
    /\ logs' = [logs EXCEPT ![k + 2].done = TRUE]
    /\ UNCHANGED <<pc, searches, enabled_providers, prior_sources, task_metadata, provider_usage,
                   all_results, i, combined_sources, provider_stats,
                   sources, tool_msg>>

\* One launched task finishes, in any order, with a list or an exception.
TaskComplete(k) ==
    /\ pc = "gather"
    /\ k \in running
    /\ \E r \in Outcomes(k, task_metadata[k + 1]) : outcome' = outcome @@ (k :> r)
    /\ finish_order' = Append(finish_order, k)
    /\ running' = running \ {k}
    /\ UNCHANGED <<pc, searches, enabled_providers, prior_sources, task_metadata, provider_usage,
                   all_results, i, combined_sources, provider_stats, logs,
                   sources, tool_msg>>

\* Mutant of Join: gather without return_exceptions, the exception of a failed
\* task is raised out of the tool.
Join_RaisesFirstException ==
    /\ pc = "gather"
    /\ running = {}
    /\ IF \E k \in DOMAIN outcome : isinstance_Exception(outcome[k])
       THEN /\ pc' = "raised"
            /\ UNCHANGED <<all_results, combined_sources, provider_stats, i>>
       ELSE /\ all_results' = [k \in 1..Len(task_metadata) |-> outcome[k - 1]]
            /\ combined_sources' = EmptyDict
            /\ provider_stats' = [p \in Range(KnownProviders) |-> 0]
            /\ i' = 0
            /\ pc' = "process"
    /\ UNCHANGED <<searches, enabled_providers, prior_sources, task_metadata, provider_usage,
                   running, outcome, finish_order, logs, sources, tool_msg>>

\* Mutant of Join: gather without return_exceptions, which raises the first
\* exception as soon as a task fails, while the other tasks are still running.
Join_EndsWaitOnFirstException ==
    /\ pc = "gather"
    /\ \/ running = {}
       \/ \E k \in DOMAIN outcome : isinstance_Exception(outcome[k])
    /\ IF \E k \in DOMAIN outcome : isinstance_Exception(outcome[k])
       THEN /\ pc' = "raised"
            /\ UNCHANGED <<all_results, combined_sources, provider_stats, i>>
       ELSE /\ all_results' = [k \in 1..Len(task_metadata) |-> outcome[k - 1]]
            /\ combined_sources' = EmptyDict
            /\ provider_stats' = [p \in Range(KnownProviders) |-> 0]
            /\ i' = 0
            /\ pc' = "process"
    /\ UNCHANGED <<searches, enabled_providers, prior_sources, task_metadata, provider_usage,
                   running, outcome, finish_order, logs, sources, tool_msg>>

\* Mutant of Join: the results are collected in the order the tasks finished
\* (as with asyncio.as_completed) and not in the order of the task list.
Join_InCompletionOrder ==
    /\ pc = "gather"
    /\ running = {}
    /\ all_results' = [k \in 1..Len(task_metadata) |-> outcome[finish_order[k]]]
    /\ combined_sources' = EmptyDict
    /\ provider_stats' = [p \in Range(KnownProviders) |-> 0]
    /\ i' = 0
    /\ pc' = "process"
    /\ UNCHANGED <<searches, enabled_providers, prior_sources, task_metadata, provider_usage,
                   running, outcome, finish_order, logs, sources, tool_msg>>

\* Lines 252-256: gather returns once no task is running.
Join ==
    /\ pc = "gather"
    /\ running = {}
    /\ all_results' = [k \in 1..Len(task_metadata) |-> outcome[k - 1]]
    /\ combined_sources' = EmptyDict
    /\ provider_stats' = [p \in Range(KnownProviders) |-> 0]
    /\ i' = 0
    /\ pc' = "process"
    /\ UNCHANGED <<searches, enabled_providers, prior_sources, task_metadata, provider_usage,
                   running, outcome, finish_order, logs, sources, tool_msg>>

\* d[k] = v on a dict.
SetKey(d, k, v) == (k :> v) @@ d

\* Mutant of MergeItems: the test "url not in combined_sources" is dropped, a
\* later item overwrites the entry of its URL.
RECURSIVE MergeItems_LastWriterWins(_, _, _, _, _)
MergeItems_LastWriterWins(acc, results, j, provider, type) ==
    IF j > Len(results) THEN acc
    ELSE LET url == results[j].url
         IN  IF url # ""
             THEN MergeItems_LastWriterWins(
                    [combined |-> SetKey(acc.combined, url,
                                    SetKey(SetKey(results[j], "source_provider", provider),
                                           "search_type", type)),
                     stats |-> [acc.stats EXCEPT ![provider] = @ + 1]],
                    results, j + 1, provider, type)
             ELSE MergeItems_LastWriterWins(acc, results, j + 1, provider, type)

\* Mutant of MergeItems: the test "url and" is dropped, an item without a URL
\* is stored under the empty key.
RECURSIVE MergeItems_KeepsEmptyUrl(_, _, _, _, _)
MergeItems_KeepsEmptyUrl(acc, results, j, provider, type) ==
    IF j > Len(results) THEN acc
    ELSE LET url == results[j].url
         IN  IF url \notin DOMAIN acc.combined
             THEN MergeItems_KeepsEmptyUrl(
                    [combined |-> SetKey(acc.combined, url,
                                    SetKey(SetKey(results[j], "source_provider", provider),
                                           "search_type", type)),
                     stats |-> [acc.stats EXCEPT ![provider] = @ + 1]],
                    results, j + 1, provider, type)
             ELSE MergeItems_KeepsEmptyUrl(acc, results, j + 1, provider, type)

\* Lines 270-278 for the items of one task, from item j on.
RECURSIVE MergeItems(_, _, _, _, _)
MergeItems(acc, results, j, provider, type) ==
    IF j > Len(results) THEN acc
    ELSE LET url == results[j].url
         IN  IF url # "" /\ url \notin DOMAIN acc.combined
             THEN MergeItems(
                    [combined |-> SetKey(acc.combined, url,
                                    SetKey(SetKey(results[j], "source_provider", provider),
                                           "search_type", type)),
                     stats |-> [acc.stats EXCEPT ![provider] = @ + 1]],
                    results, j + 1, provider, type)
             ELSE MergeItems(acc, results, j + 1, provider, type)

\* Mutant of ProcessResult: a failed task is skipped before its entry is marked.
ProcessResult_SkipsFailedEntry ==
    /\ pc = "process"
    /\ i < Len(all_results)
    /\ LET results == all_results[i + 1]
           meta == task_metadata[i + 1]
       IN  IF isinstance_Exception(results)
           THEN UNCHANGED <<logs, combined_sources, provider_stats>>
           ELSE LET merged == MergeItems([combined |-> combined_sources,
                                          stats |-> provider_stats],
                                         results.items, 1, meta.provider, meta.type)
                IN  /\ combined_sources' = merged.combined
                    /\ provider_stats' = merged.stats
                    /\ logs' = [logs EXCEPT ![i + 2] =
                                   SetKey(SetKey(@, "done", TRUE),
                                          "results_count", Len(results.items))]
    /\ i' = i + 1
    /\ UNCHANGED <<pc, searches, enabled_providers, prior_sources, task_metadata, provider_usage,
                   running, outcome, finish_order, all_results, sources, tool_msg>>

\* Mutant of ProcessResult: the exception of a failed task is raised again
\* out of the loop once its entry is marked.
ProcessResult_ReraisesFailure ==
    /\ pc = "process"
    /\ i < Len(all_results)
    /\ LET results == all_results[i + 1]
           meta == task_metadata[i + 1]
       IN  IF isinstance_Exception(results)
           THEN /\ logs' = [logs EXCEPT ![i + 2] =
                               SetKey(SetKey(@, "done", TRUE), "error", results.text)]
                /\ pc' = "raised"
                /\ UNCHANGED <<combined_sources, provider_stats>>
           ELSE LET merged == MergeItems([combined |-> combined_sources,
                                          stats |-> provider_stats],
                                         results.items, 1, meta.provider, meta.type)
                IN  /\ combined_sources' = merged.combined
                    /\ provider_stats' = merged.stats
                    /\ pc' = pc
                    /\ logs' = [logs EXCEPT ![i + 2] =
                                   SetKey(SetKey(@, "done", TRUE),
                                          "results_count", Len(results.items))]
    /\ i' = i + 1
    /\ UNCHANGED <<searches, enabled_providers, prior_sources, task_metadata, provider_usage,
                   running, outcome, finish_order, all_results, sources, tool_msg>>

\* Mutant of ProcessResult: the entry of task i is taken to be logs[i], without
\* the offset of the summary entry.
ProcessResult_MarksEntryI ==
    /\ pc = "process"
    /\ i < Len(all_results)
    /\ LET results == all_results[i + 1]
           meta == task_metadata[i + 1]
       IN  IF isinstance_Exception(results)
           THEN /\ logs' = [logs EXCEPT ![i + 1] =
                               SetKey(SetKey(@, "done", TRUE), "error", results.text)]
                /\ UNCHANGED <<combined_sources, provider_stats>>
           ELSE LET merged == MergeItems([combined |-> combined_sources,
                                          stats |-> provider_stats],
                                         results.items, 1, meta.provider, meta.type)
                IN  /\ combined_sources' = merged.combined
                    /\ provider_stats' = merged.stats
                    /\ logs' = [logs EXCEPT ![i + 1] =
                                   SetKey(SetKey(@, "done", TRUE),
                                          "results_count", Len(results.items))]
    /\ i' = i + 1
    /\ UNCHANGED <<pc, searches, enabled_providers, prior_sources, task_metadata, provider_usage,
                   running, outcome, finish_order, all_results, sources, tool_msg>>

\* Lines 258-283: one iteration of the result loop, up to its emit.
ProcessResult ==
    /\ pc = "process"
    /\ i < Len(all_results)
    /\ LET results == all_results[i + 1]
           meta == task_metadata[i + 1]
       IN  IF isinstance_Exception(results)
           THEN /\ logs' = [logs EXCEPT ![i + 2] =
                               SetKey(SetKey(@, "done", TRUE), "error", results.text)]
                /\ UNCHANGED <<combined_sources, provider_stats>>
           ELSE LET merged == MergeItems([combined |-> combined_sources,
                                          stats |-> provider_stats],
                                         results.items, 1, meta.provider, meta.type)
                IN  /\ combined_sources' = merged.combined
                    /\ provider_stats' = merged.stats
                    /\ logs' = [logs EXCEPT ![i + 2] =
                                   SetKey(SetKey(@, "done", TRUE),
                                          "results_count", Len(results.items))]
    /\ i' = i + 1
    /\ UNCHANGED <<pc, searches, enabled_providers, prior_sources, task_metadata, provider_usage,
                   running, outcome, finish_order, all_results, sources, tool_msg>>

\* Mutant of MarkSummary: the summary entry is marked at any point of the
\* result loop, the loop going on after it.
MarkSummary_DuringLoop ==
    /\ pc = "process"
    /\ i <= Len(all_results)
    /\ logs' = [logs EXCEPT ![1] = SetKey(@, "done", TRUE)]
    /\ pc' = IF i = Len(all_results) THEN "update" ELSE "process"
    /\ UNCHANGED <<searches, enabled_providers, prior_sources, task_metadata, provider_usage,
                   running, outcome, finish_order, all_results, i, combined_sources,
                   provider_stats, sources, tool_msg>>

\* Lines 286-287: the loop is over, the summary entry is marked done.
MarkSummary ==
    /\ pc = "process"
    /\ i = Len(all_results)
    /\ logs' = [logs EXCEPT ![1] = SetKey(@, "done", TRUE)]
    /\ pc' = "update"
    /\ UNCHANGED <<searches, enabled_providers, prior_sources, task_metadata, provider_usage,
                   running, outcome, finish_order, all_results, i, combined_sources,
                   provider_stats, sources, tool_msg>>

\* f"{p}: {count}" ... if count > 0, kept as the list of pairs.
ProviderBreakdown(stats) == ProviderList(stats)

\* Mutant of UpdateSources: the aggregate is merged into the sources of the
\* state (state['sources'].update(combined_sources)) instead of replacing them.
UpdateSources_MergesPrior ==
    /\ pc = "update"
    /\ sources' = combined_sources @@ sources
    /\ tool_msg' = [total_sources |-> Cardinality(DOMAIN combined_sources),
                    provider_breakdown |-> ProviderBreakdown(provider_stats),
                    strategy |-> IF Truthy(enabled_providers)
                                 THEN <<"User-specified providers", enabled_providers>>
                                 ELSE <<"Agent-selected providers based on search types">>]
    /\ pc' = "clear"
    /\ UNCHANGED <<searches, enabled_providers, prior_sources, task_metadata, provider_usage,
                   running, outcome, finish_order, all_results, i, combined_sources,
                   provider_stats, logs>>

\* Mutant of UpdateSources: the sources of the state are kept when the run
\* found nothing (if combined_sources: state['sources'] = combined_sources).
UpdateSources_KeepsPriorWhenEmpty ==
    /\ pc = "update"
    /\ sources' = IF DOMAIN combined_sources = {} THEN sources ELSE combined_sources
    /\ tool_msg' = [total_sources |-> Cardinality(DOMAIN combined_sources),
                    provider_breakdown |-> ProviderBreakdown(provider_stats),
                    strategy |-> IF Truthy(enabled_providers)
                                 THEN <<"User-specified providers", enabled_providers>>
                                 ELSE <<"Agent-selected providers based on search types">>]
    /\ pc' = "clear"
    /\ UNCHANGED <<searches, enabled_providers, prior_sources, task_metadata, provider_usage,
                   running, outcome, finish_order, all_results, i, combined_sources,
                   provider_stats, logs>>

\* Lines 290-311: sources replaced, the summary text built, then the sleep.
UpdateSources ==
    /\ pc = "update"
    /\ sources' = combined_sources
    /\ tool_msg' = [total_sources |-> Cardinality(DOMAIN combined_sources),
                    provider_breakdown |-> ProviderBreakdown(provider_stats),
                    strategy |-> IF Truthy(enabled_providers)
                                 THEN <<"User-specified providers", enabled_providers>>
                                 ELSE <<"Agent-selected providers based on search types">>]
    /\ pc' = "clear"
    /\ UNCHANGED <<searches, enabled_providers, prior_sources, task_metadata, provider_usage,
                   running, outcome, finish_order, all_results, i, combined_sources,
                   provider_stats, logs>>

\* Lines 312-315: the log is cleared and (state, tool_msg) returned.
ClearLogs ==
    /\ pc = "clear"
    /\ logs' = <<>>
    /\ pc' = "returned"
    /\ UNCHANGED <<searches, enabled_providers, prior_sources, task_metadata, provider_usage,
                   running, outcome, finish_order, all_results, i, combined_sources,
                   provider_stats, sources, tool_msg>>

\* A run on two search requests with enabled_providers = None, for every pair
\* of types: the provider policy alone decides the tasks.
InitScenario ==
    /\ pc = "start"
    /\ searches \in SearchRequests(2)
    /\ enabled_providers = NoneList
    /\ Len(BuildTaskMetadata(searches, enabled_providers)) <= MaxTasks
    /\ task_metadata = <<>>
    /\ provider_usage = [p \in Range(KnownProviders) |-> 0]
    /\ running = {}
    /\ outcome = EmptyDict
    /\ finish_order = <<>>
    /\ all_results = <<>>
    /\ i = 0
    /\ combined_sources = EmptyDict
    /\ provider_stats = [p \in Range(KnownProviders) |-> 0]
    /\ logs = <<>>
    /\ sources \in PriorSources
    /\ prior_sources = sources
    /\ tool_msg = None
    \* the variables of select_providers and of the graph are not used
    /\ search_type = "general" /\ user_providers = NoneList /\ selected = NoneList
    /\ node = "idle" /\ messages = <<>> /\ proposal = None /\ outline = <<>>
    /\ reviewed_proposal = None /\ executed = <<>> /\ emitted = <<>>
    /\ emit_failed = FALSE

\* A run on one search request, of any type and with any enabled_providers.
InitOneRequest ==
    /\ pc = "start"
    /\ searches \in SearchRequests(1)
    /\ enabled_providers \in EnabledInputs
    /\ Len(BuildTaskMetadata(searches, enabled_providers)) <= MaxTasks
    /\ task_metadata = <<>>
    /\ provider_usage = [p \in Range(KnownProviders) |-> 0]
    /\ running = {}
    /\ outcome = EmptyDict
    /\ finish_order = <<>>
    /\ all_results = <<>>
    /\ i = 0
    /\ combined_sources = EmptyDict
    /\ provider_stats = [p \in Range(KnownProviders) |-> 0]
    /\ logs = <<>>
    /\ sources \in PriorSources
    /\ prior_sources = sources
    /\ tool_msg = None
    \* the variables of select_providers and of the graph are not used
    /\ search_type = "general" /\ user_providers = NoneList /\ selected = NoneList
    /\ node = "idle" /\ messages = <<>> /\ proposal = None /\ outline = <<>>
    /\ reviewed_proposal = None /\ executed = <<>> /\ emitted = <<>>
    /\ emit_failed = FALSE

NextSelect == SelectProviders /\ UNCHANGED <<search_vars, record_vars, graph_vars>>
SpecSelect == InitSelect /\ [][NextSelect]_vars

NextSearch ==
    /\ \/ BuildTasks
       \/ LogTasks
       \/ \E k \in running : TaskComplete(k)
       \/ Join
       \/ ProcessResult
       \/ MarkSummary
       \/ UpdateSources
       \/ ClearLogs
    /\ UNCHANGED <<select_vars, graph_vars>>
SpecSearch == InitSearch /\ [][NextSearch]_vars
SpecScenario == InitScenario /\ [][NextSearch]_vars
\* The run under the event loop: the coroutine is resumed whenever it can go
\* on, and every launched task ends (with a list or an exception). While a
\* task runs the coroutine waits in gather and the end of a task is the only
\* step; once all have ended only the coroutine's own steps remain.
SpecSearchLive == InitOneRequest /\ [][NextSearch]_vars /\ WF_vars(NextSearch)

(***************************************************************************)
(* The graph: call_model_node, tool_node, process_feedback_node            *)
(*                                                                         *)
(* node is the node about to run: "__start__" before the first run,        *)
(* "__end__" after a run has finished, "raised" after an exception has     *)
(* left a node. At "process_feedback_node" the graph is interrupted until   *)
(* the reviewed proposal is supplied.                                       *)
(* The registered tools tavily_search, tavily_extract and section_writer   *)
(* are implemented outside the modelled sources and are not called here.   *)
(***************************************************************************)
MaxMessages == 5
MaxBatch == 2

ToolsByName == {"outline_writer", "review_proposal", "intelligent_search"}
\* The names a model response can carry; the last one is not registered.
CallNames == ToolsByName \cup {"web_browser"}
\* tool_calls of a response: the id of a call is its position.
Batches ==
    {[k \in 1..Len(ns) |-> [name |-> ns[k], id |-> k]] : ns \in SeqsUpTo(CallNames, MaxBatch)}

HumanMessage == [type |-> "human", content |-> "hi"]
OtherMessage == [type |-> "chat", content |-> "hi"]
AIMessage(calls) == [type |-> "ai", content |-> "", tool_calls |-> calls]
SystemMessage == [type |-> "system", content |-> "User has reviewed the proposal"]
ToolMessage(content, name, id) ==
    [type |-> "tool", content |-> content, name |-> name, tool_call_id |-> id]
ReviewToolMessage(id) == [type |-> "tool", content |-> "", tool_call_id |-> id]

\* ---- Proposal values
SectionKeys == {"a", "b"}
ProposalSection(k, approved) ==
    [title |-> <<"title", k>>, description |-> <<"description", k>>, approved |-> approved]
SectionMaps ==
    UNION {{[k \in K |-> ProposalSection(k, f[k])] : f \in [K -> BOOLEAN]} :
              K \in SUBSET SectionKeys}
Proposal(sections, remarks, approved) ==
    [sections |-> sections, remarks |-> remarks, approved |-> approved]
\* What the reviewer can send back.
ReviewedProposals ==
    {Proposal(sm, r, ap) : sm \in SectionMaps, r \in {NoneStr, "shorter"}, ap \in BOOLEAN}

\* ---- the tools as tool_node sees them: (state, outcome) -> new_state, tool_msg
\* state is the dict handed to the tool: [outline, proposal, sources, logs].

\* intelligent_search run to its end on the results res of its tasks.
RECURSIVE MergeResults(_, _, _, _)
MergeResults(acc, tasks, res, t) ==
    IF t > Len(tasks) THEN acc
    ELSE IF isinstance_Exception(res[t])
         THEN MergeResults(acc, tasks, res, t + 1)
         ELSE MergeResults(MergeItems(acc, res[t].items, 1, tasks[t].provider, tasks[t].type),
                           tasks, res, t + 1)

intelligent_search(state, run) ==
    LET tasks == BuildTaskMetadata(run.searches, run.enabled_providers)
        merged == MergeResults([combined |-> EmptyDict,
                                stats |-> [p \in Range(KnownProviders) |-> 0]],
                               tasks, run.results, 1)
    IN  [new_state |-> [state EXCEPT !.sources = merged.combined, !.logs = <<>>],
         tool_msg |-> "Intelligent search complete!"]

\* The runs of intelligent_search the graph is exercised with.
SearchRuns ==
    {[searches |-> <<[query |-> 1, type |-> "general"]>>, enabled_providers |-> NoneList,
      results |-> <<ReturnedList(<<[url |-> "u1", content |-> <<0, 1>>]>>),
                    ReturnedList(<<[url |-> "u1", content |-> <<1, 1>>]>>)>>],
     [searches |-> <<[query |-> 1, type |-> "news"]>>, enabled_providers |-> <<"all">>,
      results |-> <<RaisedException, ReturnedList(<<>>)>>]}

\* outline_writer: the proposal of the response, or the fallback proposal when
\* the generation failed (lines 118-175).
GeneratedSections ==
    {[k \in SectionKeys |-> ProposalSection(k, FALSE)],
     [k \in {"a"} |-> ProposalSection(k, TRUE)]}
OutlineResponses ==
    {[ok |-> TRUE, sections |-> sm] : sm \in GeneratedSections} \cup {[ok |-> FALSE]}
\* Mutant of outline_writer: the handler of a failed generation returns
\* without clearing the log.
outline_writer_KeepsLogsOnFailure(state, gen) ==
    IF ~gen.ok
    THEN [new_state |-> [state EXCEPT
                           !.proposal = Proposal(EmptyDict, "Error generating proposal", FALSE),
                           !.logs = state.logs \o
                                    <<[message |-> <<"Thinking of a research proposal">>,
                                       done |-> TRUE],
                                      [message |-> <<"Generating a research proposal outline">>,
                                       done |-> FALSE]>>],
          tool_msg |-> "Error generating outline proposal"]
    ELSE [new_state |-> [state EXCEPT !.proposal = Proposal(gen.sections, NoneStr, FALSE),
                                      !.logs = <<>>],
          tool_msg |-> "Generated the following outline proposal"]

\* Mutant of outline_writer: a generated proposal also resets the outline of
\* the record.
outline_writer_ResetsOutline(state, gen) ==
    IF ~gen.ok
    THEN [new_state |-> [state EXCEPT
                           !.proposal = Proposal(EmptyDict, "Error generating proposal", FALSE),
                           !.logs = <<>>],
          tool_msg |-> "Error generating outline proposal"]
    ELSE [new_state |-> [state EXCEPT !.proposal = Proposal(gen.sections, NoneStr, FALSE),
                                      !.outline = EmptyDict,
                                      !.logs = <<>>],
          tool_msg |-> "Generated the following outline proposal"]

\* Mutant of outline_writer: a failed generation returns the error summary
\* and leaves the proposal of the record as it was.
outline_writer_KeepsProposalOnFailure(state, gen) ==
    IF ~gen.ok
    THEN [new_state |-> [state EXCEPT !.logs = <<>>],
          tool_msg |-> "Error generating outline proposal"]
    ELSE [new_state |-> [state EXCEPT !.proposal = Proposal(gen.sections, NoneStr, FALSE),
                                      !.logs = <<>>],
          tool_msg |-> "Generated the following outline proposal"]

outline_writer(state, gen) ==
    IF ~gen.ok
    THEN [new_state |-> [state EXCEPT
                           !.proposal = Proposal(EmptyDict, "Error generating proposal", FALSE),
                           !.logs = <<>>],
          tool_msg |-> "Error generating outline proposal"]
    ELSE [new_state |-> [state EXCEPT !.proposal = Proposal(gen.sections, NoneStr, FALSE),
                                      !.logs = <<>>],
          tool_msg |-> "Generated the following outline proposal"]

\* What one call of a registered tool can do: raise (for instance the
\* validation of the arguments against args_schema), or return.
ToolResults(name, state) ==
    CASE name = "intelligent_search" ->
            {[raised |-> TRUE]} \cup
            {[raised |-> FALSE] @@ intelligent_search(state, run) : run \in SearchRuns}
      [] name = "outline_writer" ->
            {[raised |-> TRUE]} \cup
            {[raised |-> FALSE] @@ outline_writer(state, gen) : gen \in OutlineResponses}
      [] OTHER -> {[raised |-> TRUE]}

\* The loop of tool_node (lines 194-228) from call k on; loc holds the locals
\* state, msgs and tool_state, the tools invoked and the snapshots emitted so
\* far, and whether state['messages'] has been replaced by the dict of line
\* 201. An emit that raises ends the loop like any other exception. The
\* result is the set of ways the loop can end.
RECURSIVE ToolLoop(_, _, _)
ToolLoop(calls, k, loc) ==
    IF k > Len(calls)
    THEN {[exit |-> "return", loc |-> loc, id |-> 0]}
    ELSE IF calls[k].name = "review_proposal"
    THEN {[exit |-> "goto_feedback", loc |-> loc, id |-> calls[k].id]}
    ELSE IF loc.messages_replaced
    \* line 201 iterates the dict of the previous iteration: a key has no .content
    THEN {[exit |-> "raise", loc |-> loc, id |-> calls[k].id]}
    ELSE IF calls[k].name \notin ToolsByName
    \* line 208: KeyError
    THEN {[exit |-> "raise", loc |-> [loc EXCEPT !.messages_replaced = TRUE],
           id |-> calls[k].id]}
    ELSE UNION {
           IF r.raised
           THEN {[exit |-> "raise",
                  loc |-> [loc EXCEPT !.messages_replaced = TRUE,
                                      !.executed = Append(@, calls[k].name)],
                  id |-> calls[k].id]}
           ELSE LET msgs == Append(loc.msgs,
                                   ToolMessage(r.tool_msg, calls[k].name, calls[k].id))
                    tool_state == [outline |-> r.new_state.outline,
                                   sources |-> r.new_state.sources,
                                   proposal |-> r.new_state.proposal,
                                   logs |-> r.new_state.logs,
                                   messages |-> msgs]
                \* line 226: the emit delivers the snapshot, or raises
                IN  ToolLoop(calls, k + 1,
                             [state |-> r.new_state,
                              msgs |-> msgs,
                              tool_state |-> tool_state,
                              executed |-> Append(loc.executed, calls[k].name),
                              emitted |-> Append(loc.emitted, tool_state),
                              emit_failed |-> FALSE,
                              messages_replaced |-> TRUE])
                    \cup
                    {[exit |-> "raise",
                      loc |-> [state |-> r.new_state,
                               msgs |-> msgs,
                               tool_state |-> tool_state,
                               executed |-> Append(loc.executed, calls[k].name),
                               emitted |-> loc.emitted,
                               emit_failed |-> TRUE,
                               messages_replaced |-> TRUE],
                      id |-> calls[k].id]}
           : r \in ToolResults(calls[k].name, loc.state)}

Last(seq) == seq[Len(seq)]

InitGraph ==
    /\ node = "__start__"
    /\ messages = <<>>
    /\ proposal = None
    /\ outline = EmptyDict
    /\ sources = EmptyDict
    /\ logs = <<>>
    /\ reviewed_proposal = None
    /\ executed = <<>>
    /\ emitted = <<>>
    /\ emit_failed = FALSE
    \* the variables of select_providers and of the search tool are not used
    /\ search_type = "general" /\ user_providers = NoneList /\ selected = NoneList
    /\ pc = "idle" /\ searches = <<>> /\ enabled_providers = NoneList
    /\ prior_sources = <<>>
    /\ task_metadata = <<>> /\ provider_usage = <<>> /\ running = {}
    /\ outcome = <<>> /\ finish_order = <<>> /\ all_results = <<>> /\ i = 0
    /\ combined_sources = <<>> /\ provider_stats = <<>> /\ tool_msg = None

\* A run of the graph starts at its entry point on the caller's message.
Invoke ==
    /\ node \in {"__start__", "__end__"}
    /\ Len(messages) < MaxMessages
    /\ \E m \in {HumanMessage, OtherMessage} : messages' = Append(messages, m)
    /\ node' = "call_model_node"
    /\ UNCHANGED <<proposal, outline, sources, logs, reviewed_proposal, executed, emitted,
                   emit_failed>>

\* Lines 167-170: a last message of another kind becomes a HumanMessage.
Coerced(msgs) ==
    IF Last(msgs).type \in {"ai", "system", "human", "tool"} THEN msgs
    ELSE [msgs EXCEPT ![Len(msgs)] = [type |-> "human", content |-> @.content]]

\* Python truthiness of proposal.get('remarks'): no proposal, None and "" are falsy.
HasRemarks(p) == p # None /\ p.remarks # NoneStr /\ p.remarks # ""

\* Mutant of _build_system_prompt: the test "and not outline" is missing, the
\* proposal is added whenever it has remarks.
_build_system_prompt_IgnoresOutline(state) ==
    (IF HasRemarks(state.proposal)
     THEN <<[part |-> "Reviewed Proposal",
             approved |-> state.proposal.approved,
             sections |-> state.proposal.sections,
             remarks |-> state.proposal.remarks]>>
     ELSE <<>>)
    \o (IF DOMAIN state.outline # {}
        THEN <<[part |-> "Approved Outline", outline |-> state.outline]>>
        ELSE <<>>)

\* _build_system_prompt: the parts of the prompt that depend on the record
\* (lines 133-148), in the order they are appended; the fixed text of lines
\* 83-131 is left out, and no section is ever written here (lines 150-158).
_build_system_prompt(state) ==
    (IF HasRemarks(state.proposal) /\ DOMAIN state.outline = {}
     THEN <<[part |-> "Reviewed Proposal",
             approved |-> state.proposal.approved,
             sections |-> state.proposal.sections,
             remarks |-> state.proposal.remarks]>>
     ELSE <<>>)
    \o (IF DOMAIN state.outline # {}
        THEN <<[part |-> "Approved Outline", outline |-> state.outline]>>
        ELSE <<>>)

\* Mutant of call_model_node: every response is routed to tool_node.
call_model_node_AlwaysToTools ==
    /\ node = "call_model_node"
    /\ Len(messages) < MaxMessages
    /\ \E base \in {messages, Coerced(messages)} :
          \/ \E calls \in Batches :
                /\ messages' = Append(base, AIMessage(calls))
                /\ node' = "tool_node"
          \/ /\ messages' = base
             /\ node' = "raised"
    /\ UNCHANGED <<proposal, outline, sources, logs, reviewed_proposal, executed, emitted,
                   emit_failed>>

\* call_model_node: the model answers with a batch of tool calls (possibly
\* empty) or the call raises. Line 170 assigns into the list of the state in
\* place; whether the graph keeps that assignment is left open.
call_model_node ==
    /\ node = "call_model_node"
    /\ Len(messages) < MaxMessages
    /\ \E base \in {messages, Coerced(messages)} :
          \/ \E calls \in Batches :
                /\ messages' = Append(base, AIMessage(calls))
                /\ node' = IF calls # <<>> THEN "tool_node" ELSE "__end__"
          \/ /\ messages' = base
             /\ node' = "raised"
    /\ UNCHANGED <<proposal, outline, sources, logs, reviewed_proposal, executed, emitted,
                   emit_failed>>

\* tool_node: the loop over the tool calls of the last message. A Command
\* routes to its goto; a plain update follows the edge to call_model_node.
tool_node ==
    /\ node = "tool_node"
    /\ \E end \in ToolLoop(Last(messages).tool_calls, 1,
                           [state |-> [outline |-> outline, proposal |-> proposal,
                                       sources |-> sources, logs |-> logs],
                            msgs |-> <<>>,
                            tool_state |-> EmptyDict,
                            executed |-> <<>>,
                            emitted |-> <<>>,
                            emit_failed |-> FALSE,
                            messages_replaced |-> FALSE]) :
          /\ executed' = end.loc.executed
          /\ emitted' = end.loc.emitted
          /\ emit_failed' = end.loc.emit_failed
          /\ CASE end.exit = "goto_feedback" ->
                    /\ node' = "process_feedback_node"
                    /\ messages' = Append(messages, ReviewToolMessage(end.id))
                    /\ UNCHANGED <<proposal, outline, sources, logs>>
               [] end.exit = "return" ->
                    /\ node' = "call_model_node"
                    /\ IF end.loc.tool_state = EmptyDict
                       THEN UNCHANGED <<messages, proposal, outline, sources, logs>>
                       ELSE /\ messages' = messages \o end.loc.tool_state.messages
                            /\ proposal' = end.loc.tool_state.proposal
                            /\ outline' = end.loc.tool_state.outline
                            /\ sources' = end.loc.tool_state.sources
                            /\ logs' = end.loc.tool_state.logs
               [] end.exit = "raise" ->
                    /\ node' = "raised"
                    /\ UNCHANGED <<messages, proposal, outline, sources, logs>>
    /\ UNCHANGED reviewed_proposal

\* Mutant of ApprovedOutline: the filter "if v.approved" is missing.
ApprovedOutline_EverySection(p) ==
    [k \in DOMAIN p.sections |->
        [title |-> p.sections[k].title, description |-> p.sections[k].description]]

\* Lines 244-248: the approved sections of a proposal.
ApprovedOutline(p) ==
    [k \in {key \in DOMAIN p.sections : p.sections[key].approved} |->
        [title |-> p.sections[k].title, description |-> p.sections[k].description]]

\* Mutant of process_feedback_node: the proposal is stored inside the branch of
\* an approved review only.
process_feedback_node_DropsRejected(rp) ==
    /\ node = "process_feedback_node"
    /\ reviewed_proposal' = rp
    /\ outline' = IF rp.approved THEN ApprovedOutline(rp) ELSE outline
    /\ proposal' = IF rp.approved THEN rp ELSE proposal
    /\ messages' = Append(messages, SystemMessage)
    /\ node' = "call_model_node"
    /\ UNCHANGED <<sources, logs, executed, emitted, emit_failed>>

\* process_feedback_node, resumed with the reviewed proposal rp.
process_feedback_node(rp) ==
    /\ node = "process_feedback_node"
    /\ reviewed_proposal' = rp
    /\ outline' = IF rp.approved THEN ApprovedOutline(rp) ELSE outline
    /\ proposal' = rp
    /\ messages' = Append(messages, SystemMessage)
    /\ node' = "call_model_node"
    /\ UNCHANGED <<sources, logs, executed, emitted, emit_failed>>

NextGraph ==
    /\ \/ Invoke
       \/ call_model_node
       \/ tool_node
       \/ \E rp \in ReviewedProposals : process_feedback_node(rp)
    /\ UNCHANGED <<select_vars, search_vars>>
Spec == InitGraph /\ [][NextGraph]_vars

(***************************************************************************)
(* The writers of the record: a behaviour is either a run of the graph or,  *)
(* seen from inside, a run of intelligent_search on one request.            *)
(***************************************************************************)
InitRecord ==
    \/ /\ pc = "start"
       /\ searches \in SearchRequests(1)
       /\ enabled_providers \in EnabledInputs
       /\ Len(BuildTaskMetadata(searches, enabled_providers)) <= MaxTasks
       /\ task_metadata = <<>>
       /\ provider_usage = [p \in Range(KnownProviders) |-> 0]
       /\ running = {}
       /\ outcome = EmptyDict
       /\ finish_order = <<>>
       /\ all_results = <<>>
       /\ i = 0
       /\ combined_sources = EmptyDict
       /\ provider_stats = [p \in Range(KnownProviders) |-> 0]
       /\ logs = <<>>
       /\ sources \in PriorSources
       /\ prior_sources = sources
       /\ tool_msg = None
       /\ search_type = "general" /\ user_providers = NoneList /\ selected = NoneList
       /\ node = "idle" /\ messages = <<>> /\ proposal = None /\ outline = <<>>
       /\ reviewed_proposal = None /\ executed = <<>> /\ emitted = <<>>
       /\ emit_failed = FALSE
    \/ /\ node = "__start__"
       /\ messages = <<>>
       /\ proposal = None
       /\ outline = EmptyDict
       /\ sources = EmptyDict
       /\ logs = <<>>
       /\ reviewed_proposal = None
       /\ executed = <<>>
       /\ emitted = <<>>
       /\ emit_failed = FALSE
       /\ search_type = "general" /\ user_providers = NoneList /\ selected = NoneList
       /\ pc = "idle" /\ searches = <<>> /\ enabled_providers = NoneList
       /\ prior_sources = <<>>
       /\ task_metadata = <<>> /\ provider_usage = <<>> /\ running = {}
       /\ outcome = <<>> /\ finish_order = <<>> /\ all_results = <<>> /\ i = 0
       /\ combined_sources = <<>> /\ provider_stats = <<>> /\ tool_msg = None

NextRecord == NextSearch \/ NextGraph
SpecRecord == InitRecord /\ [][NextRecord]_vars

(***************************************************************************)
(* Properties of intelligent_search (SpecSearch)                           *)
(***************************************************************************)
NumTasks == Len(task_metadata)
\* Every launched task has finished (t is the 1-based position of a task,
\* t - 1 its Python index).
AllFinished == pc \notin {"start", "log_tasks"} /\ running = {}
Succeeded(t) == AllFinished /\ ~isinstance_Exception(outcome[t - 1])
Failed(t) == AllFinished /\ isinstance_Exception(outcome[t - 1])
\* The non-empty URLs among the items task t returned.
UrlsOf(t) ==
    IF Succeeded(t) THEN {outcome[t - 1].items[j].url : j \in DOMAIN outcome[t - 1].items} \ {""}
    ELSE {}
ReturnedUrls == UNION {UrlsOf(t) : t \in 1..NumTasks}
FirstTask(u) == CHOOSE t \in 1..NumTasks : u \in UrlsOf(t) /\ \A s \in 1..(t - 1) : u \notin UrlsOf(s)
FirstItem(t, u) ==
    LET items == outcome[t - 1].items
    IN  items[CHOOSE j \in DOMAIN items : items[j].url = u /\ \A n \in 1..(j - 1) : items[n].url # u]
SourcesAssigned == pc \in {"clear", "returned"}

\* C1: when two tasks of a run return an item with the same (non-empty) URL,
\* the sources map has the one entry of that URL, and the entry holds the item,
\* the provider and the search type of the first task, in task-list order,
\* that returned the URL.
C1_FirstListedTaskWins ==
    SourcesAssigned =>
        \A a \in 1..NumTasks : \A b \in (a + 1)..NumTasks :
            \A u \in UrlsOf(a) \cap UrlsOf(b) :
                /\ u \in DOMAIN sources
                /\ LET f == FirstTask(u)
                   IN  /\ f <= a
                       /\ sources[u].url = u
                       /\ sources[u].content = FirstItem(f, u).content
                       /\ sources[u].source_provider = task_metadata[f].provider
                       /\ sources[u].search_type = task_metadata[f].type
                       /\ DOMAIN sources[u] = {"url", "content", "source_provider", "search_type"}

\* A run has returned in which two tasks of different providers returned the same URL.
C1_Witness ==
    /\ pc = "returned"
    /\ \E a \in 1..NumTasks : \E b \in (a + 1)..NumTasks :
          /\ UrlsOf(a) \cap UrlsOf(b) # {}
          /\ task_metadata[a].provider # task_metadata[b].provider

\* C2: from the launch of the tasks until the log is cleared the log holds
\* 1 + N entries, the summary entry and then one entry per task in task order;
\* just before the log is cleared every entry is marked done, whatever number
\* of tasks failed.
C2_LogCount ==
    /\ pc \in {"gather", "process", "update", "clear"} =>
          /\ Len(logs) = 1 + Len(BuildTaskMetadata(searches, enabled_providers))
          /\ "providers" \in DOMAIN logs[1]
          /\ \A n \in 2..Len(logs) : logs[n].index = n - 2
    /\ pc = "clear" => \A n \in 1..Len(logs) : logs[n].done

\* The log is about to be cleared in a run of at least two tasks, one of which failed.
C2_Witness ==
    /\ pc = "clear"
    /\ NumTasks >= 2
    /\ \E t \in 1..NumTasks : Failed(t)
    /\ \E t \in 1..NumTasks : Succeeded(t)

StrictSubsetFailed ==
    /\ AllFinished
    /\ \E t \in 1..NumTasks : Failed(t)
    /\ \E t \in 1..NumTasks : Succeeded(t)

\* C3: when some but not all tasks of a run fail, the run goes on to return
\* (state, summary): every task has a result, the sources are exactly the
\* distinct non-empty URLs the successful tasks returned (none is attributed to
\* a failed task) and the summary reports their number.
C3_PartialFailure ==
    StrictSubsetFailed =>
        /\ pc \in {"gather", "process", "update", "clear", "returned"}
        /\ pc # "gather" => Len(all_results) = NumTasks
        /\ pc # "returned" =>
              ENABLED (Join \/ ProcessResult \/ MarkSummary \/ UpdateSources \/ ClearLogs)
        /\ SourcesAssigned =>
              /\ DOMAIN sources = ReturnedUrls
              /\ Cardinality(DOMAIN sources) =
                    Cardinality(UNION {UrlsOf(t) : t \in {n \in 1..NumTasks : Succeeded(n)}})
              /\ \A u \in DOMAIN sources : Succeeded(sources[u].content[1] + 1)
              /\ tool_msg # None
              /\ tool_msg.total_sources = Cardinality(ReturnedUrls)

\* A run has returned in which one task failed and another returned a URL.
C3_Witness ==
    /\ pc = "returned"
    /\ StrictSubsetFailed
    /\ ReturnedUrls # {}

\* C12: once a run has assigned the sources, the sources map is exactly the
\* aggregate built in that run: its keys are the non-empty URLs the successful
\* tasks of this run returned and every entry is an item of this run; a source
\* of an earlier run stays only under a URL that was returned again, and then
\* with the data of this run.
C12_SourcesReplaced ==
    SourcesAssigned =>
        /\ sources = combined_sources
        /\ DOMAIN sources = ReturnedUrls
        /\ \A u \in DOMAIN prior_sources \ ReturnedUrls : u \notin DOMAIN sources
        /\ \A u \in DOMAIN sources :
              /\ Len(sources[u].content) = 2
              /\ sources[u].content = FirstItem(FirstTask(u), u).content

\* A run has returned that was called with the source u1 of an earlier run
\* and whose tasks returned another URL and not u1.
C12_Witness ==
    /\ pc = "returned"
    /\ DOMAIN prior_sources = {"u1"}
    /\ ReturnedUrls = {"u2"}
    /\ DOMAIN sources = {"u2"}

\* The providers selected for request r of the batch, and the number of tasks
\* of the requests before it.
SelectedFor(r) == select_providers(searches[r].type, enabled_providers)
RECURSIVE TasksBefore(_)
TasksBefore(r) == IF r = 1 THEN 0 ELSE TasksBefore(r - 1) + Len(SelectedFor(r - 1))
\* The number of distinct non-empty URLs the first t tasks returned, task by
\* task, and the same for the tasks of provider p.
RECURSIVE SumUrls(_)
SumUrls(t) == IF t = 0 THEN 0 ELSE SumUrls(t - 1) + Cardinality(UrlsOf(t))
RECURSIVE SumUrlsOf(_, _)
SumUrlsOf(p, t) ==
    IF t = 0 THEN 0
    ELSE SumUrlsOf(p, t - 1) + (IF task_metadata[t].provider = p
                                THEN Cardinality(UrlsOf(t)) ELSE 0)
NonOverlapping ==
    \A a \in 1..NumTasks : \A b \in (a + 1)..NumTasks : UrlsOf(a) \cap UrlsOf(b) = {}
ExpectedBreakdown ==
    LET Contributes(pair) == pair[2] > 0
    IN  SelectSeq(<< <<"tavily", SumUrlsOf("tavily", NumTasks)>>,
                     <<"jina", SumUrlsOf("jina", NumTasks)>> >>, Contributes)

C18_JoinAllBarrier ==
    /\ pc \notin {"start", "log_tasks", "gather"} =>
          /\ running = {}
          /\ DOMAIN outcome = {t - 1 : t \in 1..NumTasks}
    /\ running # {} =>
          /\ pc = "gather"
          /\ ~ENABLED Join
          /\ all_results = <<>>
          /\ DOMAIN combined_sources = {}
          /\ \A n \in DOMAIN logs : ~logs[n].done

\* The task that finished first had failed; the loop has run over both results
\* and merged the URLs of the task that finished after it.
C18_Witness ==
    /\ pc = "process"
    /\ NumTasks = 2
    /\ i = 2
    /\ Failed(finish_order[1] + 1)
    /\ Succeeded(finish_order[2] + 1)
    /\ DOMAIN combined_sources # {}

\* The URLs that enter the aggregate under provider p when the results are
\* merged in task-list order.
UrlsCredited(p) == {u \in ReturnedUrls : task_metadata[FirstTask(u)].provider = p}

\* C19: the outcome of a run is determined by the task list and the result of
\* each task, whatever the order in which the tasks finished: when the result
\* loop is over, the aggregate holds for each returned URL the item of the
\* first task in task-list order that returned it, a provider is credited with
\* the URLs its tasks were the first in task-list order to return, and entry
\* t + 1 of the log carries the provider and the result of task t of the
\* list; that aggregate becomes the sources.
C19_OrderIndependence ==
    /\ pc = "update" =>
          /\ DOMAIN combined_sources = ReturnedUrls
          /\ \A u \in ReturnedUrls :
                LET f == FirstTask(u)
                IN  /\ combined_sources[u].content = FirstItem(f, u).content
                    /\ combined_sources[u].source_provider = task_metadata[f].provider
                    /\ combined_sources[u].search_type = task_metadata[f].type
          /\ \A p \in Range(KnownProviders) :
                provider_stats[p] = Cardinality(UrlsCredited(p))
          /\ \A t \in 1..NumTasks :
                /\ logs[t + 1].provider = task_metadata[t].provider
                /\ Succeeded(t) =>
                      /\ "results_count" \in DOMAIN logs[t + 1]
                      /\ logs[t + 1].results_count = Len(outcome[t - 1].items)
                /\ Failed(t) =>
                      /\ "error" \in DOMAIN logs[t + 1]
                      /\ logs[t + 1].error = outcome[t - 1].text
    /\ pc \in {"clear", "returned"} => sources = combined_sources

\* The second task of the list finished first; both tasks, of different
\* providers, returned the same URL, and the run has assigned the sources.
C19_Witness ==
    /\ pc = "clear"
    /\ NumTasks = 2
    /\ finish_order = <<1, 0>>
    /\ UrlsOf(1) \cap UrlsOf(2) # {}
    /\ task_metadata[1].provider # task_metadata[2].provider

Processed(t) == (pc = "process" /\ t <= i) \/ pc \in {"update", "clear"}

\* C20: from the launch of the tasks until the log is cleared, entry 0 of the
\* log is the summary entry and entry t + 1 is the entry of task t of the task
\* list; once task t has been processed its entry is done and carries the
\* error text and no result count if the task failed, the result count and no
\* error if it succeeded; the entry of a task not yet processed is not done
\* and carries neither.
C20_EntryPerTask ==
    pc \in {"gather", "process", "update", "clear"} =>
        /\ DOMAIN logs[1] = {"message", "done", "providers"}
        /\ \A t \in 1..NumTasks :
              /\ logs[t + 1].index = t - 1
              /\ logs[t + 1].provider = task_metadata[t].provider
              /\ logs[t + 1].message = <<task_metadata[t].provider, task_metadata[t].query,
                                         task_metadata[t].type>>
              /\ Processed(t) =>
                    /\ logs[t + 1].done
                    /\ Failed(t) =>
                          /\ "error" \in DOMAIN logs[t + 1]
                          /\ logs[t + 1].error = outcome[t - 1].text
                          /\ "results_count" \notin DOMAIN logs[t + 1]
                    /\ Succeeded(t) =>
                          /\ "results_count" \in DOMAIN logs[t + 1]
                          /\ logs[t + 1].results_count = Len(outcome[t - 1].items)
                          /\ "error" \notin DOMAIN logs[t + 1]
              /\ ~Processed(t) =>
                    /\ ~logs[t + 1].done
                    /\ DOMAIN logs[t + 1] = {"message", "done", "provider", "index"}

\* The loop has processed the first of two tasks, which had failed, and not
\* yet the second, which returned an item.
C20_Witness ==
    /\ pc = "process"
    /\ NumTasks = 2
    /\ i = 1
    /\ Failed(1)
    /\ Succeeded(2)
    /\ Len(outcome[1].items) = 1
    /\ "error" \in DOMAIN logs[2]

\* C21: in every state of a run in which the summary entry (entry 0 of the
\* log) is marked done, every task entry is marked done: the summary entry is
\* the last one to be marked.
C21_SummaryMarkedLast ==
    (logs # <<>> /\ logs[1].done) =>
        /\ pc \in {"update", "clear"}
        /\ Len(logs) = 1 + NumTasks
        /\ \A n \in 2..Len(logs) : logs[n].done

\* The summary entry is marked done in a run of two tasks, the first of which
\* failed and the second of which returned an item.
C21_Witness ==
    /\ pc = "update"
    /\ logs[1].done
    /\ NumTasks = 2
    /\ Failed(1)
    /\ Succeeded(2)
    /\ Len(outcome[1].items) = 1
    /\ logs[2].done /\ logs[3].done

\* Every task of provider p, and there is one, ended with an exception.
ProviderOut(p) ==
    /\ AllFinished
    /\ \E t \in 1..NumTasks : task_metadata[t].provider = p
    /\ \A t \in 1..NumTasks : task_metadata[t].provider = p => Failed(t)
ReturnedResult ==
    /\ pc = "returned"
    /\ tool_msg # None
    /\ DOMAIN sources = ReturnedUrls

\* C22: when every launched task ends, every run of intelligent_search
\* returns (state, summary); a run in which all tasks of one provider failed
\* returns as well, with exactly the sources the other tasks returned.
C22_EveryRunReturns ==
    /\ <>ReturnedResult
    /\ \A p \in {"tavily", "jina"} : ProviderOut(p) ~> ReturnedResult

\* A run has returned in which the task of tavily failed and the task of jina
\* returned a URL, which is the one source.
C22_Witness ==
    /\ ReturnedResult
    /\ NumTasks = 2
    /\ ProviderOut("tavily")
    /\ ~ProviderOut("jina")
    /\ Cardinality(DOMAIN sources) = 1

\* C27: once a run has assigned the sources, the counts of the providers add
\* up to the total the summary reports, which is the number of entries of the
\* sources map; no key of the map is the empty URL; and every entry was
\* returned by a task of the run under its key, and carries the provider of
\* that task, which is one of the providers selected for the request of the
\* task, and the type of that request.
C27_CountsAndAttribution ==
    SourcesAssigned =>
        /\ provider_stats["tavily"] + provider_stats["jina"] = tool_msg.total_sources
        /\ tool_msg.total_sources = Cardinality(DOMAIN sources)
        /\ "" \notin DOMAIN sources
        /\ \A u \in DOMAIN sources :
              LET t == sources[u].content[1] + 1
                  r == task_metadata[t].query
              IN  /\ u \in UrlsOf(t)
                  /\ sources[u].url = u
                  /\ r \in DOMAIN searches
                  /\ sources[u].source_provider = task_metadata[t].provider
                  /\ sources[u].source_provider \in
                        Range(select_providers(searches[r].type, enabled_providers))
                  /\ sources[u].search_type = searches[r].type

\* A run has returned in which the task of tavily returned an item without a
\* URL and the task of jina an item with one: one source, credited to jina.
C27_Witness ==
    /\ pc = "returned"
    /\ NumTasks = 2
    /\ Succeeded(1) /\ Succeeded(2)
    /\ Len(outcome[0].items) = 1
    /\ outcome[0].items[1].url = ""
    /\ UrlsOf(2) = {"u2"}
    /\ DOMAIN sources = {"u2"}
    /\ sources["u2"].source_provider = "jina"
    /\ provider_stats = [tavily |-> 0, jina |-> 1]

\* No task of the run returned a list: every task failed, or there is none.
NothingReturned == AllFinished /\ \A t \in 1..NumTasks : Failed(t)

\* C28: a run in which every task failed, or which has no task, goes on to
\* return (state, summary) like any other: after the loop the log holds the
\* summary entry and one entry per task, all marked done, until it is
\* cleared; the sources map is assigned the empty map, whatever sources the
\* record held when the tool was called, and the summary reports 0 sources
\* and no provider.
C28_EmptyRunReturnsAndDropsSources ==
    NothingReturned =>
        /\ pc \in {"gather", "process", "update", "clear", "returned"}
        /\ pc # "returned" =>
              ENABLED (Join \/ ProcessResult \/ MarkSummary \/ UpdateSources \/ ClearLogs)
        /\ pc \in {"update", "clear"} =>
              /\ Len(logs) = 1 + NumTasks
              /\ \A n \in DOMAIN logs : logs[n].done
              /\ \A n \in 2..Len(logs) : "error" \in DOMAIN logs[n]
        /\ SourcesAssigned =>
              /\ DOMAIN sources = {}
              /\ \A u \in DOMAIN prior_sources : u \notin DOMAIN sources
              /\ tool_msg # None
              /\ tool_msg.total_sources = 0
              /\ tool_msg.provider_breakdown = <<>>

\* A run of two tasks, both of which failed, on a record that held a source
\* of an earlier run, has returned: the sources map is empty.
C28_Witness ==
    /\ pc = "returned"
    /\ NumTasks = 2
    /\ Failed(1) /\ Failed(2)
    /\ DOMAIN prior_sources = {"u1"}
    /\ DOMAIN sources = {}
    /\ tool_msg.total_sources = 0

(***************************************************************************)
(* Properties of select_providers (SpecSelect)                             *)
(***************************************************************************)
Returned == selected # NoneList

\* C4: with a non-empty enabled_providers the search type plays no role: a
\* list that contains "all" selects the providers tavily and jina, any other
\* list selects the recognized names it contains and nothing else.
C4_UserChoice ==
    (Returned /\ Truthy(user_providers)) =>
        /\ \A t \in TypeInputs : select_providers(t, user_providers) = selected
        /\ "all" \in Range(user_providers) => selected = <<"tavily", "jina">>
        /\ "all" \notin Range(user_providers) =>
              /\ Range(selected) = Range(user_providers) \cap {"tavily", "jina"}
              /\ Len(selected) =
                    Cardinality({k \in DOMAIN user_providers :
                                    user_providers[k] \in {"tavily", "jina"}})

\* select_providers has returned for a list that names a recognized and an
\* unrecognized provider, for a type whose policy differs from the list.
C4_Witness ==
    /\ Returned
    /\ search_type = "news"
    /\ {"jina", "bing"} \subseteq Range(user_providers)

\* C5: with enabled_providers None or empty the type alone decides: general
\* selects tavily and jina, news only tavily, academic and technical only
\* jina, any other type tavily and jina.
C5_TypePolicy ==
    (Returned /\ ~Truthy(user_providers)) =>
        /\ search_type = "general" => selected = <<"tavily", "jina">>
        /\ search_type = "news" => selected = <<"tavily">>
        /\ search_type = "academic" => selected = <<"jina">>
        /\ search_type = "technical" => selected = <<"jina">>
        /\ search_type \notin DeclaredTypes => Range(selected) = {"tavily", "jina"}

\* select_providers has returned for an unrecognized type and an empty list.
C5_Witness ==
    /\ Returned
    /\ search_type \notin DeclaredTypes
    /\ user_providers = <<>>

(***************************************************************************)
(* Properties of the graph (Spec)                                          *)
(***************************************************************************)
\* The state process_feedback_node leaves behind.
AfterResume ==
    /\ node = "call_model_node"
    /\ messages # <<>>
    /\ Last(messages) = SystemMessage
Resuming == node = "process_feedback_node" /\ node' # node

\* C6 as stated: after every resume the outline is the projection of the
\* reviewed proposal onto its approved sections.
C6_OutlineIsProjectionAfterEveryResume ==
    AfterResume =>
        \A k \in SectionKeys :
            k \in DOMAIN outline <=>
                (k \in DOMAIN reviewed_proposal.sections /\ reviewed_proposal.sections[k].approved)

\* C6 amended: a resume with a reviewed proposal whose approved flag is true
\* makes the outline the projection of that proposal onto its approved
\* sections (key k with the title and description of section k, for the
\* approved sections k and no other key); a resume with a reviewed proposal
\* whose approved flag is false leaves the outline as it was.
C6_OutlineProjectionWhenApproved ==
    [][Resuming =>
        /\ reviewed_proposal'.approved =>
              /\ DOMAIN outline' = {k \in DOMAIN reviewed_proposal'.sections :
                                       reviewed_proposal'.sections[k].approved}
              /\ \A k \in DOMAIN outline' :
                    outline'[k] = [title |-> reviewed_proposal'.sections[k].title,
                                   description |-> reviewed_proposal'.sections[k].description]
        /\ ~reviewed_proposal'.approved => outline' = outline]_vars

\* Resumed with an approved proposal {a: approved, b: not approved}: the
\* outline has the key a only.
C6_Witness ==
    /\ AfterResume
    /\ reviewed_proposal.approved
    /\ DOMAIN reviewed_proposal.sections = {"a", "b"}
    /\ reviewed_proposal.sections["a"].approved
    /\ ~reviewed_proposal.sections["b"].approved
    /\ DOMAIN outline = {"a"}

\* C7: every resume, whatever the review says, stores the reviewed proposal
\* as the proposal of the record, appends the one system message to the
\* conversation and goes to call_model_node.
C7_ResumeStoresReview ==
    [][Resuming =>
        /\ reviewed_proposal' \in ReviewedProposals
        /\ proposal' = reviewed_proposal'
        /\ messages' = Append(messages, SystemMessage)
        /\ node' = "call_model_node"]_vars

\* Resumed for the second time, now with a proposal rejected as a whole and in
\* every section; the earlier review had been stored.
C7_Witness ==
    /\ AfterResume
    /\ proposal = reviewed_proposal
    /\ ~proposal.approved
    /\ DOMAIN proposal.sections = SectionKeys
    /\ \A k \in SectionKeys : ~proposal.sections[k].approved
    /\ Cardinality({k \in DOMAIN messages : messages[k] = SystemMessage}) = 2

\* C8: a model turn that produced a response appends that response and nothing
\* else; without tool calls the graph ends, with tool calls it goes to tool_node.
C8_ModelTurn ==
    [][(node = "call_model_node" /\ node' \notin {node, "raised"}) =>
        /\ Len(messages') = Len(messages) + 1
        /\ \A k \in 1..(Len(messages) - 1) : messages'[k] = messages[k]
        /\ messages'[Len(messages)] \in {Last(messages), Last(Coerced(messages))}
        /\ Last(messages').type = "ai"
        /\ Last(messages').tool_calls = <<>> => node' = "__end__"
        /\ Last(messages').tool_calls # <<>> => node' = "tool_node"]_vars

\* The graph has ended on a response without tool calls.
C8_Witness ==
    /\ node = "__end__"
    /\ Last(messages).type = "ai"
    /\ Last(messages).tool_calls = <<>>

BatchNames == {Last(messages).tool_calls[k].name : k \in DOMAIN Last(messages).tool_calls}

\* C9 as stated, for the turns in which no exception leaves tool_node: when the
\* batch contains review_proposal at any position, tool_node executes no tool
\* of the batch, emits no snapshot and goes to process_feedback_node.
C9_ReviewShortCircuitsBatch ==
    [][(node = "tool_node" /\ "review_proposal" \in BatchNames /\ node' # "raised") =>
        /\ executed' = <<>>
        /\ emitted' = <<>>
        /\ node' = "process_feedback_node"]_vars

\* C10 as stated: tool_node always comes back to call_model_node from a batch
\* without review_proposal, with one tool-result message per call, the message
\* of a call whose tool raised (or is not registered) carrying the error text.
C10_ToolErrorsAreCaptured ==
    [][(node = "tool_node" /\ "review_proposal" \notin BatchNames) =>
        /\ node' = "call_model_node"
        /\ Len(messages') = Len(messages) + Len(Last(messages).tool_calls)
        /\ \A k \in DOMAIN Last(messages).tool_calls :
              /\ messages'[Len(messages) + k].type = "tool"
              /\ messages'[Len(messages) + k].tool_call_id = k]_vars

\* C11 as stated: a model turn never leaves call_model_node with an exception;
\* when the model call fails the turn still appends one message in the place of
\* the model's answer (the error report) and the graph ends.
C11_ModelFailureEndsTurnWithReport ==
    [][(node = "call_model_node" /\ node' # node) =>
        /\ node' \in {"tool_node", "__end__"}
        /\ Len(messages') = Len(messages) + 1
        /\ Last(messages').type = "ai"]_vars

\* C13: whenever tool_node hands the record back to call_model_node the log is
\* empty, and it is empty in every snapshot taken after a tool returned,
\* whether the tool was intelligent_search or outline_writer and whether
\* outline_writer generated a proposal or fell back to the error proposal.
C13_LogsEmptyAfterTools ==
    /\ node = "call_model_node" => logs = <<>>
    /\ \A k \in DOMAIN emitted : emitted[k].logs = <<>>

\* tool_node has come back from an outline_writer call whose generation failed.
C13_Witness ==
    /\ node = "call_model_node"
    /\ executed = <<"outline_writer">>
    /\ Last(messages).type = "tool"
    /\ proposal # None
    /\ proposal.remarks = "Error generating proposal"
    /\ Len(emitted) = 1

\* The context call_model_node builds when it runs on the current record.
Context == _build_system_prompt([outline |-> outline, proposal |-> proposal])
ContextHasProposal(p) ==
    \E k \in DOMAIN Context :
        /\ Context[k].part = "Reviewed Proposal"
        /\ Context[k].approved = p.approved
        /\ Context[k].sections = p.sections
        /\ Context[k].remarks = p.remarks
ContextHasOutline ==
    \E k \in DOMAIN Context :
        Context[k].part = "Approved Outline" /\ Context[k].outline = outline
RejectedWithRemarks ==
    AfterResume /\ ~reviewed_proposal.approved /\ HasRemarks(reviewed_proposal)

\* C15 as stated: after a resume with a rejected proposal that carries remarks
\* the context of the next model turn contains that proposal and its remarks,
\* whatever the record holds, an outline of an earlier approval included.
C15_RejectedProposalAlwaysInContext ==
    RejectedWithRemarks => ContextHasProposal(reviewed_proposal)

\* C15 amended: after a resume with a rejected proposal that carries remarks
\* the context of the next model turn contains that proposal and its remarks
\* when the record has no outline; when the record has an outline (of an
\* earlier approval) the context contains the outline and not the proposal.
C15_RejectedProposalInContextWithoutOutline ==
    RejectedWithRemarks =>
        /\ DOMAIN outline = {} => ContextHasProposal(reviewed_proposal)
        /\ DOMAIN outline # {} =>
              /\ ContextHasOutline
              /\ \A k \in DOMAIN Context : Context[k].part # "Reviewed Proposal"

\* Resumed with a rejected proposal with remarks on a record without outline:
\* the context of the model turn shows the proposal.
C15_Witness ==
    /\ RejectedWithRemarks
    /\ DOMAIN outline = {}
    /\ DOMAIN reviewed_proposal.sections = SectionKeys
    /\ ContextHasProposal(proposal)

AllowedTransitions ==
    {<<"call_model_node", "tool_node">>, <<"call_model_node", "__end__">>,
     <<"tool_node", "process_feedback_node">>, <<"tool_node", "call_model_node">>,
     <<"process_feedback_node", "call_model_node">>}

\* C16 as stated: within a run the graph moves only from call_model_node to
\* tool_node or to the end, from tool_node to process_feedback_node or to
\* call_model_node, and from process_feedback_node to call_model_node; it
\* leaves process_feedback_node only with a reviewed proposal. (The start of a
\* run on the caller's message is not a move of the machine.)
C16_OnlyListedTransitions ==
    [][(node' # node /\ node \notin {"__start__", "__end__"}) =>
        /\ <<node, node'>> \in AllowedTransitions
        /\ node = "process_feedback_node" =>
              /\ reviewed_proposal' \in ReviewedProposals
              /\ proposal' = reviewed_proposal']_vars

\* C17 as stated, for the batches of registered tools each of which returns
\* when invoked: tool_node invokes the k tools in batch order, appends the k
\* tool-result messages in call order, commits the record of the last tool
\* and goes to call_model_node.
C17_BatchRunsEveryCall ==
    [][(/\ node = "tool_node"
        /\ "review_proposal" \notin BatchNames
        /\ BatchNames \subseteq ToolsByName
        /\ Len(emitted') = Len(executed')) =>
        LET calls == Last(messages).tool_calls
        IN  /\ node' = "call_model_node"
            /\ executed' = [k \in DOMAIN calls |-> calls[k].name]
            /\ Len(messages') = Len(messages) + Len(calls)
            /\ \A k \in DOMAIN calls :
                  /\ messages'[Len(messages) + k].type = "tool"
                  /\ messages'[Len(messages) + k].name = calls[k].name
                  /\ messages'[Len(messages) + k].tool_call_id = calls[k].id
            /\ sources' = Last(emitted').sources
            /\ proposal' = Last(emitted').proposal
            /\ logs' = Last(emitted').logs]_vars

\* C23: the record has one writer at a time. In a run of intelligent_search
\* no step taken while a task is running, and no step of the wait in gather,
\* changes logs or sources: every change of them is made by the tool itself
\* before the launch or after the join. In tool_node a tool is invoked only
\* after the tool before it in the batch has returned and its snapshot has
\* been emitted: snapshot k holds the results of the first k tools, and at
\* most one invoked tool has no snapshot (the one that raised).
C23_SingleWriter ==
    [][/\ (running # {} \/ pc = "gather") => (logs' = logs /\ sources' = sources)
       /\ (pc # "idle" /\ (logs' # logs \/ sources' # sources)) =>
              /\ running = {}
              /\ pc \in {"start", "log_tasks", "process", "update", "clear"}
       /\ node = "tool_node" =>
              /\ Len(executed') - Len(emitted') \in {0, 1}
              /\ \A k \in DOMAIN emitted' :
                    /\ Len(emitted'[k].messages) = k
                    /\ \A j \in 1..k : emitted'[k].messages[j].name = executed'[j]]_vars

\* Two tasks were launched, one has ended and the other is still running: the
\* log is as the tool left it at the launch and the sources are untouched.
C23_Witness ==
    /\ pc = "gather"
    /\ NumTasks = 2
    /\ Cardinality(running) = 1
    /\ Len(finish_order) = 1
    /\ Len(logs) = 3
    /\ \A n \in DOMAIN logs : ~logs[n].done
    /\ sources = prior_sources

\* C24 as stated: in every state a proposal of the record whose approved flag
\* is true has at least one section whose approved flag is true.
C24_ApprovedProposalHasApprovedSection ==
    (proposal # None /\ proposal.approved) =>
        \E k \in DOMAIN proposal.sections : proposal.sections[k].approved

\* C25 as stated: a run of tool_node in which an emit of the snapshot raised
\* ends like a run in which the observer works: the result message of every
\* tool that returned is appended and the graph goes to call_model_node.
C25_ObserverFailureIsHarmless ==
    [][(node = "tool_node" /\ emit_failed') =>
        /\ node' = "call_model_node"
        /\ Len(messages') = Len(messages) + Len(executed')
        /\ \A k \in DOMAIN executed' :
              /\ messages'[Len(messages) + k].type = "tool"
              /\ messages'[Len(messages) + k].name = executed'[k]]_vars

\* C26: the outline is empty when the graph starts and a step changes it only
\* if it is the resume of process_feedback_node with a reviewed proposal whose
\* approved flag is true; so it is empty before the first such resume, and
\* call_model_node and tool_node (running intelligent_search or
\* outline_writer, which replaces the proposal) leave it as it is.
C26_OutlineChangedOnlyByResume ==
    /\ outline = EmptyDict
    /\ [][/\ outline' # outline =>
                /\ node = "process_feedback_node"
                /\ reviewed_proposal'.approved
                /\ outline' = ApprovedOutline(reviewed_proposal')
          /\ node \in {"call_model_node", "tool_node"} => outline' = outline]_vars

\* After a resume with an approved proposal tool_node ran outline_writer,
\* which replaced the proposal: the outline of the approval is still there.
C26_Witness ==
    /\ node = "call_model_node"
    /\ executed = <<"outline_writer">>
    /\ Last(messages).type = "tool"
    /\ reviewed_proposal # None
    /\ reviewed_proposal.approved
    /\ proposal # reviewed_proposal
    /\ ~proposal.approved
    /\ DOMAIN outline = {"a"}

\* The record as a tool called now would be handed it.
Record == [outline |-> outline, proposal |-> proposal, sources |-> sources, logs |-> logs]
\* What the claim says outline_writer leaves behind for a generation gen.
ExpectedProposal(gen) ==
    IF gen.ok
    THEN [sections |-> gen.sections, remarks |-> NoneStr, approved |-> FALSE]
    ELSE [sections |-> EmptyDict, remarks |-> "Error generating proposal", approved |-> FALSE]
ExpectedSummary(gen) ==
    IF gen.ok THEN "Generated the following outline proposal"
    ELSE "Error generating outline proposal"

=============================================================================
